---- MODULE Spec2Model ----
(***************************************************************************)
(* State-machine model of the joint LoRA / textual-inversion training loop *)
(* of sd-lora-trainer: Trainer.train (src/trainer/trainer.py), the         *)
(* learning-rate query get_avg_lr (src/trainer/utils/utils.py) and the     *)
(* embedding constraint calls made by the loop.                            *)
(*                                                                         *)
(* One behaviour is one call of train().  `pc` is the position of the call *)
(* inside the body of train(); every action is one block of statements of  *)
(* the loop body.  Real-valued quantities are kept exact as integers over  *)
(* a per-run denominator (learning rates) or as ordered levels (embedding  *)
(* statistics).                                                            *)
(*                                                                         *)
(* The parts train() does not drive are exercised on their own:            *)
(* SpecCollection is an OptimizerCollection object                         *)
(* (src/trainer/optimizer.py) under step(), zero_grad() and the pivot;     *)
(* SpecCalls is one call of one function on one bounded input: the         *)
(* optimizer factories of optimizer.py, the loss block and the batch       *)
(* unpacking of train(), computed in exact fractions.                      *)
(***************************************************************************)
EXTENDS Integers, Sequences, FiniteSets, TLC

\* ---------------------------------------------------------------- bounds
MaxBatches == 3        \* len(train_dataloader) ranges over 1..MaxBatches
MaxAccum == 2          \* gradient_accumulation_steps ranges over 1..MaxAccum
MaxSteps == 4          \* max_train_steps ranges over 1..MaxSteps
MaxCkpt == 2           \* checkpointing_steps ranges over 1..MaxCkpt
MaxTiLr == 1           \* textual_inversion_lr ranges over 1..MaxTiLr (units)
MaxEmb == 3            \* embedding rows take the levels 1..MaxEmb
LongSteps == 54        \* max_train_steps of the runs longer than the final-save slack
LongCkpt == 60         \* the largest checkpointing_steps of those runs

\* ------------------------------------------------------ program constants
\* trainer.py:526  `if (global_step - last_save_step) > 51`
FinalSaveSlack == 51

\* ------------------------------------------------------------- the inputs
OptimizerNames == {"adamw", "prodigy"}
PredictionTypes == {"epsilon", "v_prediction"}

\* The configuration and collaborators train() reads and never writes.
SmallConfigs ==
    [len_train_dataloader : 1..MaxBatches,
     gradient_accumulation_steps : 1..MaxAccum,
     max_train_steps : 1..MaxSteps,
     checkpointing_steps : 1..MaxCkpt,
     hard_pivot : BOOLEAN,
     optimizer_name : OptimizerNames,
     prediction_type : PredictionTypes,
     textual_inversion_lr : 1..MaxTiLr]

\* Runs long enough for the final save of trainer.py:526 to take either
\* branch: more than FinalSaveSlack iterations, with a checkpoint interval
\* below and above the run length.
LongConfigs ==
    [len_train_dataloader : {MaxBatches},
     gradient_accumulation_steps : {1, MaxAccum},
     max_train_steps : {LongSteps},
     checkpointing_steps : {LongCkpt - 10, LongCkpt},
     hard_pivot : BOOLEAN,
     optimizer_name : {"prodigy"},
     prediction_type : {"epsilon"},
     textual_inversion_lr : {1}]

\* Scenario C of the specification: a hard pivot in a run of 10 epochs.
ScenarioCConfigs ==
    [len_train_dataloader : {2},
     gradient_accumulation_steps : {1},
     max_train_steps : {20},
     checkpointing_steps : {MaxCkpt},
     hard_pivot : {TRUE},
     optimizer_name : {"prodigy"},
     prediction_type : {"epsilon"},
     textual_inversion_lr : 1..MaxTiLr]

\* Scenario B of the specification: 1000 loop iterations, a checkpoint
\* every 500 steps.
ScenarioBConfigs ==
    [len_train_dataloader : {10},
     gradient_accumulation_steps : {1},
     max_train_steps : {1000},
     checkpointing_steps : {500},
     hard_pivot : BOOLEAN,
     optimizer_name : OptimizerNames,
     prediction_type : PredictionTypes,
     textual_inversion_lr : {1}]

\* ------------------------------------------------------------- embeddings
\* One pretrained vocabulary row and one inserted (trainable) token row.
PretrainedRows == {"tok"}
InsertedRows == {"s0"}
Rows == PretrainedRows \cup InsertedRows
EmbValues == 1..MaxEmb

\* The snapshot of the embedding matrix taken before training; the level of
\* the pretrained rows is also the target std of fix_embedding_std.
original_embeddings == [r \in Rows |-> 1]
std_token_embedding == 1

VARIABLES
    config,           \* self.config + noise_scheduler.config (read only)
    pc,               \* position inside train()
    epoch,            \* loop variable of `for epoch in range(...)`
    step,             \* loop variable of `for step, batch in enumerate(...)`
    global_step,
    last_save_step,
    optimizer,        \* the textual-inversion optimizer handle (AdamW)
    optimizer_prod,   \* the unet adapter optimizer handle (Prodigy or None)
    token_embedding,  \* the embedding matrix of the text encoder, per row
    unet_lora,        \* number of optimizer_prod steps applied to the adapter
    grads,            \* backward passes accumulated and not yet zeroed
    ti_lrs,
    lora_lrs,
    checkpoint_dirs,  \* the checkpoint root: step label -> directory content
    events,           \* the calls made so far in the current iteration
                      \* (after the loop: in the final save)
    pivot_count,      \* how often the pivot block (trainer.py:275-284) ran
    raised,           \* the exception that ended train(), or "none"
    output_save_dir,  \* the step label of output_save_dir, -1 while unset
    collection,       \* an OptimizerCollection object and the calls it made
    unit              \* one call of a library function: its input and outcome

\* The state of Trainer.train.
training == <<config, pc, epoch, step, global_step, last_save_step, optimizer,
              optimizer_prod, token_embedding, unet_lora, grads, ti_lrs,
              lora_lrs, checkpoint_dirs, events, pivot_count, raised,
              output_save_dir>>

\* The state of the objects and functions train() does not touch.
library == <<collection, unit>>

vars == <<training, library>>

\* ------------------------------------------------------ derived quantities
CeilDiv(a, b) == (a + b - 1) \div b

\* trainer.py:212-214 and 229-231
num_update_steps_per_epoch(c) ==
    CeilDiv(c.len_train_dataloader, c.gradient_accumulation_steps)

\* trainer.py:232
num_train_epochs(c) == CeilDiv(c.max_train_steps, num_update_steps_per_epoch(c))

\* Learning rates are kept as integer numerators over this denominator:
\* (len(train_dataloader) * num_train_epochs)^2, the denominator of
\* (1 - completion_f)^2 at trainer.py:287-290.
LrDen(c) ==
    (c.len_train_dataloader * num_train_epochs(c))
        * (c.len_train_dataloader * num_train_epochs(c))

\* AnalyticTiLr decaying linearly: textual_inversion_lr * (1 - completion_f).
AnalyticTiLr_Linear(c, e, s) ==
    LET total == c.len_train_dataloader * num_train_epochs(c)
        done == e * c.len_train_dataloader + s
    IN c.textual_inversion_lr * (total - done) * total

\* trainer.py:287-290: textual_inversion_lr * (1 - completion_f) ** 2.0 with
\* completion_f = (epoch + step / len(train_dataloader)) / num_train_epochs,
\* as a numerator over LrDen.
AnalyticTiLr(c, e, s) ==
    LET total == c.len_train_dataloader * num_train_epochs(c)
        done == e * c.len_train_dataloader + s
    IN c.textual_inversion_lr * (total - done) * (total - done)

\* PivotReached with the threshold rounded up instead of down.
PivotReached_RoundedUp(c, e) == e >= CeilDiv(num_train_epochs(c), 2)

\* trainer.py:273  `epoch >= num_train_epochs // 2`
PivotReached(c, e) == e >= num_train_epochs(c) \div 2

\* IsAccumulationBoundary without the last_batch disjunct.
IsAccumulationBoundary_NoLastBatch(c, s) ==
    (s + 1) % c.gradient_accumulation_steps = 0

\* IsAccumulationBoundary true for every batch.
IsAccumulationBoundary_EveryBatch(c, s) == s + 1 <= c.len_train_dataloader

\* trainer.py:428-429
IsAccumulationBoundary(c, s) ==
    \/ (s + 1) % c.gradient_accumulation_steps = 0
    \/ s + 1 = c.len_train_dataloader

\* -------------------------------------------------------------- optimizers
\* An optimizer handle as the code reads it: the name may be bound to None;
\* an optimizer object has param_groups, which the pivot sets to None.
\* A group carries lr always and the adaptive fields (d, k,
\* use_bias_correction, betas) only for Prodigy.
ParamGroup(adaptive, lr, k) ==
    [adaptive |-> adaptive, d |-> 1, lr |-> lr, use_bias_correction |-> adaptive,
     k |-> k, num_params |-> 1]

NoneOptimizer == [is_none |-> TRUE, groups_none |-> TRUE, param_groups |-> <<>>]

\* trainer.py:166-169 / 190-193: torch.optim.AdamW(params_to_optimize) with
\* the single group {"params", "lr": textual_inversion_lr, "weight_decay"}.
AdamWOptimizer(lr) ==
    [is_none |-> FALSE, groups_none |-> FALSE,
     param_groups |-> <<ParamGroup(FALSE, lr, 0)>>]

\* trainer.py:178-188: prodigyopt.Prodigy(params_to_optimize_prodigy, lr=1.0,
\* use_bias_correction=True, ...).
ProdigyOptimizer(lr) ==
    [is_none |-> FALSE, groups_none |-> FALSE,
     param_groups |-> <<ParamGroup(TRUE, lr, 0)>>]

\* optimizer_prod.step(): Prodigy advances the group's step counter k.
ProdigyStepped(opt) ==
    [opt EXCEPT !.param_groups =
        [i \in DOMAIN opt.param_groups |->
            [opt.param_groups[i] EXCEPT !.k = @ + 1]]]

\* utils.py:55-59: the factor sqrt(1 - beta2^(k+1)) / (1 - beta1^(k+1)) is a
\* positive real; rates are kept in units in which it is 1.
BiasCorrection(group) == 1

RECURSIVE SumEffective(_, _)
SumEffective(groups, i) ==
    IF i > Len(groups) THEN 0
    ELSE groups[i].d * groups[i].lr * BiasCorrection(groups[i]) * groups[i].num_params
            + SumEffective(groups, i + 1)

RECURSIVE SumParams(_, _)
SumParams(groups, i) ==
    IF i > Len(groups) THEN 0
    ELSE groups[i].num_params + SumParams(groups, i + 1)

\* utils.py:72, the except branch: optimizer.param_groups[0]['lr'] outside
\* of any try.
GetAvgLrFallback(opt) ==
    IF opt.is_none THEN [raised |-> "AttributeError", num |-> 0, den |-> 1]
    ELSE IF opt.groups_none THEN [raised |-> "TypeError", num |-> 0, den |-> 1]
    ELSE IF Len(opt.param_groups) = 0 THEN [raised |-> "IndexError", num |-> 0, den |-> 1]
    ELSE [raised |-> "none", num |-> opt.param_groups[1].lr, den |-> 1]

\* utils.py:47-72 get_avg_lr: the try body fails on a None optimizer, on
\* param_groups that are None and on a group without the key 'd'; every
\* failure goes to the except branch.
get_avg_lr(opt) ==
    IF \/ opt.is_none
       \/ opt.groups_none
       \/ \E i \in DOMAIN opt.param_groups : ~opt.param_groups[i].adaptive
    THEN GetAvgLrFallback(opt)
    ELSE IF SumParams(opt.param_groups, 1) = 0
         THEN [raised |-> "none", num |-> 0, den |-> 1]
         ELSE [raised |-> "none",
               num |-> SumEffective(opt.param_groups, 1),
               den |-> SumParams(opt.param_groups, 1)]

\* TiLrRecord whose except branch repeats the configured rate instead of 0.
TiLrRecord_StaleRate(opt) ==
    IF opt.is_none \/ opt.groups_none \/ Len(opt.param_groups) = 0 THEN 1
    ELSE opt.param_groups[1].lr

\* trainer.py:444-447: try: optimizer.param_groups[0]['lr'] except: 0.0
TiLrRecord(opt) ==
    IF opt.is_none \/ opt.groups_none \/ Len(opt.param_groups) = 0 THEN 0
    ELSE opt.param_groups[1].lr

\* -------------------------------------------------- embedding constraints
\* TokenEmbeddingsHandler.retract_embeddings: every row except the inserted
\* token rows is overwritten from the snapshot.
retract_embeddings(emb) ==
    [r \in Rows |-> IF r \in InsertedRows THEN emb[r] ELSE original_embeddings[r]]

\* TokenEmbeddingsHandler.fix_embedding_std: every inserted row is rescaled
\* by (target_std / current_std) ** off_ratio_power with a power below 1,
\* which moves its std strictly towards the target without reaching it in
\* one call: one level towards std_token_embedding.
fix_embedding_std(emb) ==
    [r \in Rows |->
        IF r \notin InsertedRows THEN emb[r]
        ELSE IF emb[r] > std_token_embedding THEN emb[r] - 1
        ELSE IF emb[r] < std_token_embedding THEN emb[r] + 1
        ELSE emb[r]]

\* ------------------------------------------------------------ checkpoints
\* save_lora(output_dir, global_step, unet, embedding_handler, ...): the
\* directory holds the adapter weights and the embeddings of the moment.
SavedLora(label) ==
    [unet_lora |-> unet_lora, token_embedding |-> token_embedding,
     saved_at |-> label, json_writes |-> 0, renders |-> 0]

DirExists(label) == label \in DOMAIN checkpoint_dirs

WithDir(label, content) ==
    [l \in (DOMAIN checkpoint_dirs) \cup {label} |->
        IF l = label THEN content ELSE checkpoint_dirs[l]]

\* ------------------------------------------------------------------- Init
\* The state at trainer.py:265, on entry to the epoch loop: the optimizers
\* of trainer.py:165-193, the counters of 248-250, the cleared checkpoint
\* root of 253-256, the histories of 261-262.
InitWith(configs) ==
    /\ config \in configs
    /\ pc = "pivot_lr"
    /\ epoch = 0
    /\ step = 0
    /\ global_step = 0
    /\ last_save_step = 0
    /\ optimizer = AdamWOptimizer(config.textual_inversion_lr * LrDen(config))
    /\ optimizer_prod = IF config.optimizer_name = "prodigy"
                        THEN ProdigyOptimizer(1) ELSE NoneOptimizer
    /\ token_embedding \in
        {e \in [Rows -> EmbValues] :
            \A r \in PretrainedRows : e[r] = original_embeddings[r]}
    /\ unet_lora = 0
    /\ grads = [ti |-> 0, unet |-> 0]
    /\ ti_lrs = <<>>
    /\ lora_lrs = <<>>
    /\ checkpoint_dirs = <<>>
    /\ events = <<>>
    /\ pivot_count = 0
    /\ raised = "none"
    /\ output_save_dir = -1
    /\ collection = <<>>
    /\ unit = <<>>

Init == InitWith(SmallConfigs \cup LongConfigs \cup ScenarioCConfigs)

InitB == InitWith(ScenarioBConfigs)

\* ---------------------------------------------------------------- actions
\* PivotOrUpdateLr without the `optimizer is not None` test of line 274.
PivotOrUpdateLr_NoNoneTest ==
    /\ pc = "pivot_lr"
    /\ IF config.hard_pivot
       THEN IF PivotReached(config, epoch)
            THEN /\ optimizer' = NoneOptimizer
                 /\ pivot_count' = pivot_count + 1
            ELSE UNCHANGED <<optimizer, pivot_count>>
       ELSE /\ optimizer' =
                [optimizer EXCEPT !.param_groups[1].lr =
                    AnalyticTiLr(config, epoch, step)]
            /\ UNCHANGED pivot_count
    /\ pc' = "forward"
    /\ UNCHANGED <<library, config, epoch, step, global_step, last_save_step,
                   optimizer_prod, token_embedding, unet_lora, grads, ti_lrs,
                   lora_lrs, checkpoint_dirs, events, raised, output_save_dir>>

\* trainer.py:269-290: the head of an iteration, the hard pivot or the
\* analytic learning-rate update.
PivotOrUpdateLr ==
    /\ pc = "pivot_lr"
    /\ IF config.hard_pivot
       THEN IF PivotReached(config, epoch) /\ ~optimizer.is_none
            THEN /\ optimizer' = NoneOptimizer
                 /\ pivot_count' = pivot_count + 1
            ELSE UNCHANGED <<optimizer, pivot_count>>
       ELSE /\ optimizer' =
                [optimizer EXCEPT !.param_groups[1].lr =
                    AnalyticTiLr(config, epoch, step)]
            /\ UNCHANGED pivot_count
    /\ pc' = "forward"
    /\ UNCHANGED <<library, config, epoch, step, global_step, last_save_step,
                   optimizer_prod, token_embedding, unet_lora, grads, ti_lrs,
                   lora_lrs, checkpoint_dirs, events, raised, output_save_dir>>

\* ForwardPass training on the noise target whatever the prediction type.
ForwardPass_DefaultTarget ==
    /\ pc = "forward"
    /\ pc' = "backward"
    /\ events' = Append(events, "unet")
    /\ UNCHANGED <<library, config, epoch, step, global_step, last_save_step,
                   optimizer, optimizer_prod, token_embedding, unet_lora, grads,
                   ti_lrs, lora_lrs, checkpoint_dirs, pivot_count, raised,
                   output_save_dir>>

\* trainer.py:293-373: unpack the batch, encode, predict, pick the target.
ForwardPass ==
    /\ pc = "forward"
    /\ IF config.prediction_type = "epsilon"
       THEN /\ pc' = "backward"
            /\ UNCHANGED raised
       ELSE /\ pc' = "raised"
            /\ raised' = "NotImplementedError"
    /\ events' = Append(events, "unet")
    /\ UNCHANGED <<library, config, epoch, step, global_step, last_save_step, optimizer,
                   optimizer_prod, token_embedding, unet_lora, grads, ti_lrs,
                   lora_lrs, checkpoint_dirs, pivot_count, output_save_dir>>

\* trainer.py:375-429: the loss, loss.backward() and the boundary test.
BackwardPass ==
    /\ pc = "backward"
    /\ grads' = [ti |-> grads.ti + 1, unet |-> grads.unet + 1]
    /\ events' = Append(events, "backward")
    /\ pc' = IF IsAccumulationBoundary(config, step)
             THEN "optimizer_step" ELSE "record_lr"
    /\ UNCHANGED <<library, config, epoch, step, global_step, last_save_step, optimizer,
                   optimizer_prod, token_embedding, unet_lora, ti_lrs, lora_lrs,
                   checkpoint_dirs, pivot_count, raised, output_save_dir>>

\* trainer.py:430-432: optimizer.step() updates the embedding matrix, every
\* row of which the optimizer owns; then optimizer.zero_grad().
OptimizerStep ==
    /\ pc = "optimizer_step"
    /\ IF ~optimizer.is_none
       THEN /\ token_embedding' \in [Rows -> EmbValues]
            /\ grads' = [grads EXCEPT !.ti = 0]
            /\ events' = events \o <<"optimizer.step", "optimizer.zero_grad">>
       ELSE UNCHANGED <<token_embedding, grads, events>>
    /\ pc' = "optimizer_prod_step"
    /\ UNCHANGED <<library, config, epoch, step, global_step, last_save_step, optimizer,
                   optimizer_prod, unet_lora, ti_lrs, lora_lrs, checkpoint_dirs,
                   pivot_count, raised, output_save_dir>>

\* trainer.py:434-436: optimizer_prod.step() then optimizer_prod.zero_grad().
OptimizerProdStep ==
    /\ pc = "optimizer_prod_step"
    /\ IF ~optimizer_prod.is_none
       THEN /\ unet_lora' = unet_lora + 1
            /\ optimizer_prod' = ProdigyStepped(optimizer_prod)
            /\ grads' = [grads EXCEPT !.unet = 0]
            /\ events' = events \o
                            <<"optimizer_prod.step", "optimizer_prod.zero_grad">>
       ELSE UNCHANGED <<unet_lora, optimizer_prod, grads, events>>
    /\ pc' = "retract"
    /\ UNCHANGED <<library, config, epoch, step, global_step, last_save_step, optimizer,
                   token_embedding, ti_lrs, lora_lrs, checkpoint_dirs,
                   pivot_count, raised, output_save_dir>>

\* RetractEmbeddings with the call of line 439 left out.
RetractEmbeddings_Skipped ==
    /\ pc = "retract"
    /\ pc' = "fix_std"
    /\ UNCHANGED <<library, config, epoch, step, global_step, last_save_step, optimizer,
                   optimizer_prod, token_embedding, unet_lora, grads, ti_lrs,
                   lora_lrs, checkpoint_dirs, events, pivot_count, raised,
                   output_save_dir>>

\* trainer.py:438-439
RetractEmbeddings ==
    /\ pc = "retract"
    /\ token_embedding' = retract_embeddings(token_embedding)
    /\ events' = Append(events, "retract_embeddings")
    /\ pc' = "fix_std"
    /\ UNCHANGED <<library, config, epoch, step, global_step, last_save_step, optimizer,
                   optimizer_prod, unet_lora, grads, ti_lrs, lora_lrs,
                   checkpoint_dirs, pivot_count, raised, output_save_dir>>

\* trainer.py:440
FixEmbeddingStd ==
    /\ pc = "fix_std"
    /\ token_embedding' = fix_embedding_std(token_embedding)
    /\ events' = Append(events, "fix_embedding_std")
    /\ pc' = "record_lr"
    /\ UNCHANGED <<library, config, epoch, step, global_step, last_save_step, optimizer,
                   optimizer_prod, unet_lora, grads, ti_lrs, lora_lrs,
                   checkpoint_dirs, pivot_count, raised, output_save_dir>>

\* trainer.py:442-447: lora_lrs.append(get_avg_lr(optimizer_prod)) is not
\* inside a try; the read of the textual-inversion rate is.  A recorded
\* adapter rate is the pair <<numerator, denominator>>.
RecordLr ==
    /\ pc = "record_lr"
    /\ LET r == get_avg_lr(optimizer_prod)
       IN IF r.raised = "none"
          THEN /\ lora_lrs' = Append(lora_lrs, <<r.num, r.den>>)
               /\ ti_lrs' = Append(ti_lrs, TiLrRecord(optimizer))
               /\ pc' = "checkpoint"
               /\ UNCHANGED raised
          ELSE /\ raised' = r.raised
               /\ pc' = "raised"
               /\ UNCHANGED <<lora_lrs, ti_lrs>>
    /\ UNCHANGED <<library, config, epoch, step, global_step, last_save_step, optimizer,
                   optimizer_prod, token_embedding, unet_lora, grads,
                   checkpoint_dirs, events, pivot_count, output_save_dir>>

\* Checkpoint with the validation render made before save_lora.
Checkpoint_RenderFirst ==
    /\ pc = "checkpoint"
    /\ IF global_step % config.checkpointing_steps = 0
       THEN /\ output_save_dir' = global_step
            /\ checkpoint_dirs' =
                  WithDir(global_step,
                          [SavedLora(global_step) EXCEPT !.json_writes = 1,
                                                         !.renders = 1])
            /\ last_save_step' = global_step
            /\ events' = events \o
                            <<"render_images", "save_lora", "save_as_json">>
            /\ pc' = "advance"
       ELSE /\ pc' = "advance"
            /\ UNCHANGED <<output_save_dir, checkpoint_dirs, last_save_step,
                           events>>
    /\ UNCHANGED <<library, config, epoch, step, global_step, optimizer,
                   optimizer_prod, token_embedding, unet_lora, grads, ti_lrs,
                   lora_lrs, pivot_count, raised>>

\* trainer.py:449-469: the periodic checkpoint, save_lora then save_as_json.
Checkpoint ==
    /\ pc = "checkpoint"
    /\ IF global_step % config.checkpointing_steps = 0
       THEN /\ output_save_dir' = global_step
            /\ checkpoint_dirs' =
                  WithDir(global_step,
                          [SavedLora(global_step) EXCEPT !.json_writes = 1])
            /\ last_save_step' = global_step
            /\ events' = events \o <<"save_lora", "save_as_json">>
            /\ pc' = "render"
       ELSE /\ pc' = "advance"
            /\ UNCHANGED <<output_save_dir, checkpoint_dirs, last_save_step,
                           events>>
    /\ UNCHANGED <<library, config, epoch, step, global_step, optimizer, optimizer_prod,
                   token_embedding, unet_lora, grads, ti_lrs, lora_lrs,
                   pivot_count, raised>>

\* trainer.py:471-479: the validation render into the checkpoint directory.
RenderImages ==
    /\ pc = "render"
    /\ checkpoint_dirs' =
          [checkpoint_dirs EXCEPT ![output_save_dir].renders = @ + 1]
    /\ events' = Append(events, "render_images")
    /\ pc' = "advance"
    /\ UNCHANGED <<library, config, epoch, step, global_step, last_save_step, optimizer,
                   optimizer_prod, token_embedding, unet_lora, grads, ti_lrs,
                   lora_lrs, pivot_count, raised, output_save_dir>>

\* trainer.py:518-519 and the loop heads 265 and 269: count the iteration,
\* take the next batch, the next epoch, or leave the loops.
Advance ==
    /\ pc = "advance"
    /\ global_step' = global_step + 1
    /\ IF step + 1 < config.len_train_dataloader
       THEN /\ step' = step + 1
            /\ pc' = "pivot_lr"
            /\ UNCHANGED epoch
       ELSE IF epoch + 1 < num_train_epochs(config)
            THEN /\ epoch' = epoch + 1
                 /\ step' = 0
                 /\ pc' = "pivot_lr"
            ELSE /\ pc' = "final_save"
                 /\ UNCHANGED <<epoch, step>>
    /\ events' = <<>>
    /\ UNCHANGED <<library, config, last_save_step, optimizer, optimizer_prod,
                   token_embedding, unet_lora, grads, ti_lrs, lora_lrs,
                   checkpoint_dirs, pivot_count, raised, output_save_dir>>

\* trainer.py:526-529
FinalLabel ==
    IF (global_step - last_save_step) > FinalSaveSlack
    THEN global_step ELSE last_save_step

\* FinalSave without the os.path.exists test: it always saves.
FinalSave_Overwrite ==
    /\ pc = "final_save"
    /\ output_save_dir' = FinalLabel
    /\ checkpoint_dirs' = WithDir(FinalLabel, SavedLora(global_step))
    /\ events' = <<"save_lora">>
    /\ pc' = "final_render"
    /\ UNCHANGED <<library, config, epoch, step, global_step, last_save_step,
                   optimizer, optimizer_prod, token_embedding, unet_lora, grads,
                   ti_lrs, lora_lrs, pivot_count, raised>>

\* trainer.py:525-547: choose the final directory and save into it unless
\* it exists.
FinalSave ==
    /\ pc = "final_save"
    /\ output_save_dir' = FinalLabel
    /\ IF ~DirExists(FinalLabel)
       THEN /\ checkpoint_dirs' = WithDir(FinalLabel, SavedLora(global_step))
            /\ events' = <<"save_lora">>
            /\ pc' = "final_render"
       ELSE /\ pc' = "finish"
            /\ UNCHANGED <<checkpoint_dirs, events>>
    /\ UNCHANGED <<library, config, epoch, step, global_step, last_save_step, optimizer,
                   optimizer_prod, token_embedding, unet_lora, grads, ti_lrs,
                   lora_lrs, pivot_count, raised>>

\* trainer.py:549
FinalRender ==
    /\ pc = "final_render"
    /\ checkpoint_dirs' =
          [checkpoint_dirs EXCEPT ![output_save_dir].renders = @ + 1]
    /\ events' = Append(events, "render_images")
    /\ pc' = "finish"
    /\ UNCHANGED <<library, config, epoch, step, global_step, last_save_step, optimizer,
                   optimizer_prod, token_embedding, unet_lora, grads, ti_lrs,
                   lora_lrs, pivot_count, raised, output_save_dir>>

\* trainer.py:553-571: release the models, write training_args.json into
\* output_save_dir and return it.
Finish ==
    /\ pc = "finish"
    /\ checkpoint_dirs' =
          [checkpoint_dirs EXCEPT ![output_save_dir].json_writes = @ + 1]
    /\ events' = Append(events, "save_as_json")
    /\ pc' = "done"
    /\ UNCHANGED <<library, config, epoch, step, global_step, last_save_step, optimizer,
                   optimizer_prod, token_embedding, unet_lora, grads, ti_lrs,
                   lora_lrs, pivot_count, raised, output_save_dir>>

Next ==
    \/ PivotOrUpdateLr
    \/ ForwardPass
    \/ BackwardPass
    \/ OptimizerStep
    \/ OptimizerProdStep
    \/ RetractEmbeddings
    \/ FixEmbeddingStd
    \/ RecordLr
    \/ Checkpoint
    \/ RenderImages
    \/ Advance
    \/ FinalSave
    \/ FinalRender
    \/ Finish

Spec == Init /\ [][Next]_vars

\* Scenario B: the same program on the 1000-iteration configuration.
SpecB == InitB /\ [][Next]_vars

\* ================================================ the optimizer collection
MaxCalls == 3          \* step()/zero_grad() calls made on one collection

\* The state of train() while the library is exercised on its own.
NotTraining ==
    /\ config = <<>>
    /\ pc = "not_training"
    /\ epoch = 0
    /\ step = 0
    /\ global_step = 0
    /\ last_save_step = 0
    /\ optimizer = NoneOptimizer
    /\ optimizer_prod = NoneOptimizer
    /\ token_embedding = original_embeddings
    /\ unet_lora = 0
    /\ grads = [ti |-> 0, unet |-> 0]
    /\ ti_lrs = <<>>
    /\ lora_lrs = <<>>
    /\ checkpoint_dirs = <<>>
    /\ events = <<>>
    /\ pivot_count = 0
    /\ raised = "none"
    /\ output_save_dir = -1

\* An optimizer object is known by its name; "None" is Python's None.
IsHandle(h) == h # "None"

\* optimizer.py:161-178  OptimizerCollection.__init__: the three attributes,
\* and the list self.optimizers built from them once.
OptimizerCollection(optimizer_unet, optimizer_textual_inversion, optimizer_text_encoder_lora) ==
    [optimizer_unet |-> optimizer_unet,
     optimizer_textual_inversion |-> optimizer_textual_inversion,
     optimizer_text_encoder_lora |-> optimizer_text_encoder_lora,
     optimizers |-> <<optimizer_unet, optimizer_textual_inversion,
                      optimizer_text_encoder_lora>>,
     calls |-> <<>>,
     n_calls |-> 0]

\* optimizer.py:180-188: the loop `for optimizer in self.optimizers: if
\* optimizer is not None: optimizer.<method>()`, as the calls it makes.
RECURSIVE FanOut(_, _, _)
FanOut(optimizers, method, i) ==
    IF i > Len(optimizers) THEN <<>>
    ELSE (IF IsHandle(optimizers[i]) THEN <<<<method, optimizers[i]>>>>
          ELSE <<>>) \o FanOut(optimizers, method, i + 1)

InitCollection ==
    /\ NotTraining
    /\ unit = <<>>
    /\ \E u \in {"None", "unet"}, t \in {"None", "textual_inversion"},
          e \in {"None", "text_encoder_lora"} :
          collection = OptimizerCollection(u, t, e)

\* optimizer.py:185-188  OptimizerCollection.step
CollectionStep ==
    /\ collection.n_calls < MaxCalls
    /\ collection' =
          [collection EXCEPT
              !.calls = @ \o FanOut(collection.optimizers, "step", 1),
              !.n_calls = @ + 1]
    /\ UNCHANGED <<training, unit>>

\* optimizer.py:180-183  OptimizerCollection.zero_grad
CollectionZeroGrad ==
    /\ collection.n_calls < MaxCalls
    /\ collection' =
          [collection EXCEPT
              !.calls = @ \o FanOut(collection.optimizers, "zero_grad", 1),
              !.n_calls = @ + 1]
    /\ UNCHANGED <<training, unit>>

\* The pivot on a collection: the textual-inversion handle reference is set
\* to null (collection.optimizer_textual_inversion = None).
CollectionPivot ==
    /\ IsHandle(collection.optimizer_textual_inversion)
    /\ collection' = [collection EXCEPT !.optimizer_textual_inversion = "None"]
    /\ UNCHANGED <<training, unit>>

NextCollection ==
    \/ CollectionStep
    \/ CollectionZeroGrad
    \/ CollectionPivot

SpecCollection == InitCollection /\ [][NextCollection]_vars

\* ================================================ the optimizer factories
\* Names a configuration may carry in an optimizer_name field: the two the
\* code knows and three it does not (one differing in case only).
AnyOptimizerNames == OptimizerNames \cup {"sgd", "lion", "AdamW"}

\* What a factory call comes to: the exception it raised, or the algorithm
\* of the optimizer it returned.
Constructed(algorithm) == [raised |-> "none", algorithm |-> algorithm]
NotConstructed(exception) == [raised |-> exception, algorithm |-> "none"]

\* get_unet_optimizer falling back to AdamW for a name it does not know.
get_unet_optimizer_DefaultAdamW(optimizer_name) ==
    IF optimizer_name = "prodigy" THEN Constructed("Prodigy")
    ELSE Constructed("AdamW")

\* optimizer.py:6-35
get_unet_optimizer(optimizer_name) ==
    IF optimizer_name = "adamw" THEN Constructed("AdamW")
    ELSE IF optimizer_name = "prodigy" THEN Constructed("Prodigy")
    ELSE NotConstructed("NotImplementedError")

\* optimizer.py:67-112
get_textual_inversion_optimizer(optimizer_name) ==
    IF optimizer_name = "prodigy" THEN Constructed("Prodigy")
    ELSE IF optimizer_name = "adamw" THEN Constructed("AdamW")
    ELSE NotConstructed("NotImplementedError")

\* optimizer.py:126-157
get_optimizer_and_peft_models_text_encoder_lora(optimizer_name) ==
    IF optimizer_name = "adamw" THEN Constructed("AdamW")
    ELSE NotConstructed("NotImplementedError")

FactoryNames ==
    {"get_unet_optimizer", "get_textual_inversion_optimizer",
     "get_optimizer_and_peft_models_text_encoder_lora"}

\* A call not made yet: the function, its input, no outcome.
Pending(fn, input) == [fn |-> fn, input |-> input, done |-> FALSE, ret |-> <<>>]
Returned(call, ret) == [call EXCEPT !.done = TRUE, !.ret = ret]

FactoryCalls ==
    {Pending(fn, [optimizer_name |-> n]) : fn \in FactoryNames,
                                           n \in AnyOptimizerNames}

CallGetUnetOptimizer ==
    /\ unit.fn = "get_unet_optimizer" /\ ~unit.done
    /\ unit' = Returned(unit, get_unet_optimizer(unit.input.optimizer_name))
    /\ UNCHANGED <<training, collection>>

CallGetTextualInversionOptimizer ==
    /\ unit.fn = "get_textual_inversion_optimizer" /\ ~unit.done
    /\ unit' = Returned(unit, get_textual_inversion_optimizer(
                                  unit.input.optimizer_name))
    /\ UNCHANGED <<training, collection>>

CallGetOptimizerTextEncoderLora ==
    /\ unit.fn = "get_optimizer_and_peft_models_text_encoder_lora"
    /\ ~unit.done
    /\ unit' = Returned(unit, get_optimizer_and_peft_models_text_encoder_lora(
                                  unit.input.optimizer_name))
    /\ UNCHANGED <<training, collection>>

\* ================================================================ the loss
MaxBatchSize == 2      \* a batch holds 1..MaxBatchSize examples

\* model_pred - target, per element.
DiffValues == {0, 1}

\* Each example is a tensor of NumPixels elements; a mask element is a
\* multiple of 1/MaskDen in [0, 1].
NumPixels == 2
MaskDen == 2

\* Exact fractions; den = 0 is a float that is not finite (nan, inf).
RECURSIVE GCD(_, _)
GCD(a, b) == IF b = 0 THEN a ELSE GCD(b, a % b)

R(n, d) == IF d = 0 THEN [num |-> 0, den |-> 0]
           ELSE LET g == GCD(n, d) IN [num |-> n \div g, den |-> d \div g]
NaN == [num |-> 0, den |-> 0]
IsFinite(a) == a.den # 0
RAdd(a, b) == IF IsFinite(a) /\ IsFinite(b)
              THEN R(a.num * b.den + b.num * a.den, a.den * b.den) ELSE NaN
RMul(a, b) == IF IsFinite(a) /\ IsFinite(b)
              THEN R(a.num * b.num, a.den * b.den) ELSE NaN
RDiv(a, b) == IF IsFinite(a) /\ IsFinite(b)
              THEN R(a.num * b.den, a.den * b.num) ELSE NaN
REq(a, b) == IsFinite(a) /\ IsFinite(b) /\ a.num * b.den = b.num * a.den

RECURSIVE RSum(_, _)
RSum(t, i) == IF i > Len(t) THEN R(0, 1) ELSE RAdd(t[i], RSum(t, i + 1))

\* torch.Tensor.mean over a vector.
RMean(t) == RDiv(RSum(t, 1), R(Len(t), 1))

\* The batches the loss is computed on: model_pred - target and the mask,
\* per example and element, with the two configuration fields it reads.
LossInputs(bsz) ==
    [diff : [1..bsz -> [1..NumPixels -> DiffValues]],
     mask : [1..bsz -> [1..NumPixels -> 0..MaskDen]],
     snr_gamma : {"None", "inf"},
     l1_penalty : {0, 1}]

\* trainer.py:376  (model_pred - target).pow(2) * mask, per example.
MaskedSquaredError(x) ==
    [b \in DOMAIN x.diff |->
        [e \in 1..NumPixels |->
            R(x.diff[b][e] * x.diff[b][e] * x.mask[b][e], MaskDen)]]

\* mask.mean(dim=[1, 2, 3]): the mean of the mask of each example.
MaskMeanPerExample(x) ==
    [b \in DOMAIN x.mask |->
        RMean([e \in 1..NumPixels |-> R(x.mask[b][e], MaskDen)])]

\* MaskedLoss dividing by the mask mean itself, not by the mask mean
\* normalized over the batch.
MaskedLoss_RawMaskMean(x) ==
    LET loss == MaskedSquaredError(x)
        mean_mask_values == MaskMeanPerExample(x)
    IN RMean([b \in DOMAIN loss |->
                 RDiv(RMean(loss[b]), mean_mask_values[b])])

\* MaskedLoss summing the per-example losses instead of averaging them.
MaskedLoss_BatchSum(x) ==
    LET loss == MaskedSquaredError(x)
        mean_mask_values == MaskMeanPerExample(x)
        normalized ==
            [b \in DOMAIN loss |->
                RDiv(mean_mask_values[b], RMean(mean_mask_values))]
    IN RSum([b \in DOMAIN loss |-> RDiv(RMean(loss[b]), normalized[b])], 1)

\* trainer.py:375-385, the branch snr_gamma is None.
MaskedLoss(x) ==
    LET loss == MaskedSquaredError(x)
        mean_mask_values == MaskMeanPerExample(x)
        normalized ==
            [b \in DOMAIN loss |->
                RDiv(mean_mask_values[b], RMean(mean_mask_values))]
    IN RMean([b \in DOMAIN loss |-> RDiv(RMean(loss[b]), normalized[b])])

\* compute_snr(noise_scheduler, timesteps): a positive value per example.
Snr(b) == R(b, 1)

\* trainer.py:387-411, the branch with snr_gamma = +inf: min(snr, inf) is
\* snr.  At line 406 `loss` has already been reduced to one value per
\* example, so list(range(1, len(loss.shape))) is the empty list there and
\* both mask.mean(dim=[]) and loss.mean(dim=[]) reduce over every dimension.
SnrWeightedLoss(x) ==
    LET base_weight == [b \in DOMAIN x.diff |-> RDiv(Snr(b), Snr(b))]
        mse_loss_weights ==
            [b \in DOMAIN x.diff |-> RDiv(base_weight[b], RMean(base_weight))]
        squared == MaskedSquaredError(x)
        loss == [b \in DOMAIN x.diff |->
                    RMul(RMean(squared[b]), mse_loss_weights[b])]
        mask_mean == RMean(MaskMeanPerExample(x))
        mean_mask_values == RDiv(mask_mean, mask_mean)
    IN RDiv(RMean(loss), mean_mask_values)

\* trainer.py:413-416: the L1 term on the adapter weights, whose normalized
\* L1 norm is taken to be 1.
WithL1Penalty(loss, x) ==
    IF x.l1_penalty > 0 THEN RAdd(loss, R(x.l1_penalty, 1)) ELSE loss

\* trainer.py:375-418: the value appended to `losses`.
ComputeLoss(x) ==
    WithL1Penalty(IF x.snr_gamma = "None" THEN MaskedLoss(x)
                  ELSE SnrWeightedLoss(x), x)

CallComputeLoss ==
    /\ unit.fn = "compute_loss" /\ ~unit.done
    /\ unit' = Returned(unit, ComputeLoss(unit.input))
    /\ UNCHANGED <<training, collection>>

\* ======================================================= the batch shapes
\* Python values a batch is made of.  Iterating a tensor yields its rows
\* along the first dimension.
None == [type |-> "None"]
Tensor(name, dim0) == [type |-> "tensor", name |-> name, dim0 |-> dim0]
Row(t, i) == [type |-> "tensor", name |-> t.name, row |-> i]
Tuple(items) == [type |-> "tuple", items |-> items]

\* `a, b, ... = v` with n targets: the n items, or the exception raised.
Unpack(v, n) ==
    IF v.type = "tuple"
    THEN IF Len(v.items) = n THEN [raised |-> "none", items |-> v.items]
         ELSE [raised |-> "ValueError", items |-> <<>>]
    ELSE IF v.type = "tensor" /\ "dim0" \in DOMAIN v
         THEN IF v.dim0 = n
              THEN [raised |-> "none", items |-> [i \in 1..n |-> Row(v, i)]]
              ELSE [raised |-> "ValueError", items |-> <<>>]
         ELSE [raised |-> "TypeError", items |-> <<>>]

Unpacked(tok1, tok2) == [raised |-> "none", tok1 |-> tok1, tok2 |-> tok2]
UnpackFailed(exception) == [raised |-> exception, tok1 |-> None, tok2 |-> None]

\* trainer.py:293-317: the try/except that tells the two batch shapes
\* apart, then the first uses of the values: vae_latent.to(...), tok.to(...)
\* for every tok that is not None, torch.concat of the embeddings made.
UnpackBatch(batch) ==
    LET outer == Unpack(batch, 3)
        inner == IF outer.raised = "none" THEN Unpack(outer.items[1], 2)
                 ELSE outer
        tokens == IF inner.raised = "none"
                  THEN Unpacked(inner.items[1], inner.items[2])
                  ELSE IF outer.raised = "none"
                       THEN Unpacked(outer.items[1], None)
                       ELSE UnpackFailed(outer.raised)
    IN IF tokens.raised # "none" THEN tokens
       ELSE IF outer.items[2].type # "tensor"
               \/ tokens.tok1.type \notin {"tensor", "None"}
               \/ tokens.tok2.type \notin {"tensor", "None"}
            THEN UnpackFailed("AttributeError")
            ELSE IF tokens.tok1 = None /\ tokens.tok2 = None
                 THEN UnpackFailed("RuntimeError")
                 ELSE tokens

\* The batches of a single-tokenizer and of a two-tokenizer dataset.
SingleTokenizerBatch(bsz) ==
    Tuple(<<Tensor("tok", bsz), Tensor("vae_latent", bsz),
            Tensor("mask", bsz)>>)

TwoTokenizerBatch(bsz) ==
    Tuple(<<Tuple(<<Tensor("tok1", bsz), Tensor("tok2", bsz)>>),
            Tensor("vae_latent", bsz), Tensor("mask", bsz)>>)

\* Batches of neither shape: an item missing, an item too many, three
\* token streams, no token stream.
OtherBatches(bsz) ==
    {Tuple(<<Tensor("tok", bsz), Tensor("vae_latent", bsz)>>),
     Tuple(<<Tensor("tok", bsz), Tensor("vae_latent", bsz),
             Tensor("mask", bsz), Tensor("extra", bsz)>>),
     Tuple(<<Tuple(<<Tensor("tok1", bsz), Tensor("tok2", bsz),
                     Tensor("tok3", bsz)>>),
             Tensor("vae_latent", bsz), Tensor("mask", bsz)>>),
     Tuple(<<None, Tensor("vae_latent", bsz), Tensor("mask", bsz)>>)}

BatchCalls ==
    {Pending("unpack_batch", [batch |-> b, bsz |-> bsz]) :
        <<b, bsz>> \in UNION {
            ({SingleTokenizerBatch(n), TwoTokenizerBatch(n)}
                \cup OtherBatches(n)) \X {n} : n \in 1..MaxBatchSize}}

CallUnpackBatch ==
    /\ unit.fn = "unpack_batch" /\ ~unit.done
    /\ unit' = Returned(unit, UnpackBatch(unit.input.batch))
    /\ UNCHANGED <<training, collection>>

\* ===================================================== device selection
MaxGpus == 2           \* torch.cuda.device_count() is 0..MaxGpus
MaxFreeMem == 2        \* free memory of a device, in units, 0..MaxFreeMem

\* What the CUDA runtime answers: the free memory of each visible device,
\* and which of the two queries raises, if any.
GpuInputs ==
    UNION {[free_memory : [1..n -> 0..MaxFreeMem],
            raises : {"none", "device_count", "mem_get_info"}] : n \in 0..MaxGpus}

\* np.argmax: the first index of a maximal entry, counted from 0.
ArgMax(values) ==
    (CHOOSE i \in 1..Len(values) :
        /\ \A j \in 1..Len(values) : values[j] <= values[i]
        /\ \A j \in 1..(i - 1) : values[j] < values[i]) - 1

GpuId(id) == [is_none |-> FALSE, id |-> id]
NoGpuId == [is_none |-> TRUE, id |-> 0]

\* utils.py:89-114
pick_best_gpu_id(x) ==
    IF x.raises = "device_count" THEN GpuId(0)
    ELSE IF x.raises = "mem_get_info" /\ Len(x.free_memory) > 0 THEN GpuId(0)
    ELSE IF Len(x.free_memory) = 0 THEN NoGpuId
    ELSE GpuId(ArgMax(x.free_memory))

\* config.py:131-132  self.device = f'cuda:{gpu_id}'
Device(gpu_id) == [type |-> "cuda", index |-> gpu_id]

GpuCalls == {Pending("pick_best_gpu_id", x) : x \in GpuInputs}

CallPickBestGpuId ==
    /\ unit.fn = "pick_best_gpu_id" /\ ~unit.done
    /\ unit' = Returned(unit, Device(pick_best_gpu_id(unit.input)))
    /\ UNCHANGED <<training, collection>>

\* ====================================================== the library calls
\* One behaviour is one call of one library function on one input.
InitCalls ==
    /\ NotTraining
    /\ collection = <<>>
    /\ \/ unit \in FactoryCalls
       \/ unit \in BatchCalls
       \/ unit \in GpuCalls
       \/ \E bsz \in 1..MaxBatchSize : \E x \in LossInputs(bsz) :
             unit = Pending("compute_loss", x)

NextCalls ==
    \/ CallGetUnetOptimizer
    \/ CallGetTextualInversionOptimizer
    \/ CallGetOptimizerTextEncoderLora
    \/ CallComputeLoss
    \/ CallUnpackBatch
    \/ CallPickBestGpuId

SpecCalls == InitCalls /\ [][NextCalls]_vars

\* ========================================================== the claims
InLoopPcs ==
    {"pivot_lr", "forward", "backward", "optimizer_step",
     "optimizer_prod_step", "retract", "fix_std", "record_lr", "checkpoint",
     "render", "advance"}
AfterLoopPcs == {"final_save", "final_render", "finish", "done"}

\* C1: the loop stops exactly when global_step == max_train_steps: no loop
\* iteration runs with global_step >= max_train_steps, and after the loop
\* global_step equals max_train_steps.
C1_LoopStopsAtMaxTrainSteps ==
    /\ pc \in InLoopPcs => global_step < config.max_train_steps
    /\ pc \in AfterLoopPcs => global_step = config.max_train_steps

\* C2: in the run of 1000 iterations with checkpointing_steps = 500 and
\* max_train_steps = 1000, the checkpoint directories that exist when
\* train() returns are exactly checkpoint-500 and checkpoint-1000.
C2_ScenarioBCheckpoints ==
    (/\ pc = "done"
     /\ config.max_train_steps = 1000
     /\ config.checkpointing_steps = 500
     /\ global_step = 1000)
        => DOMAIN checkpoint_dirs = {500, 1000}

\* C3: at loop end one more checkpoint is saved at the final global step
\* when that step is more than checkpointing_steps plus a small slack ahead
\* of last_save_step, and none is saved when it lies within that distance,
\* for every checkpointing_steps and every final step.  The slack is left
\* open: some slack between 0 and the code's own constant must explain
\* whether the final save was made.
C3_FinalSaveBeyondIntervalPlusSlack ==
    pc \in {"final_render", "finish", "done"} =>
        \E slack \in 0..FinalSaveSlack :
            DirExists(global_step) <=>
                (global_step - last_save_step
                    > config.checkpointing_steps + slack)

\* C4: at the end of every loop iteration and at every checkpoint write,
\* every embedding row other than the inserted token rows equals its
\* pre-training snapshot: the optimizer step of an iteration is followed by
\* retract_embeddings before the state is recorded or saved.
PretrainedIntact(emb) ==
    \A r \in PretrainedRows : emb[r] = original_embeddings[r]

C4_PretrainedRowsRetracted ==
    /\ pc \in {"record_lr", "checkpoint", "render", "advance", "pivot_lr",
               "forward", "backward"} \cup AfterLoopPcs
          => PretrainedIntact(token_embedding)
    /\ \A l \in DOMAIN checkpoint_dirs :
          PretrainedIntact(checkpoint_dirs[l].token_embedding)

HasEvent(e) == \E i \in DOMAIN events : events[i] = e

\* A checkpoint is being rendered in an iteration whose optimizer step ran,
\* after at least one earlier optimizer step.
C4_Witness ==
    /\ pc = "render"
    /\ global_step > 0
    /\ HasEvent("optimizer.step")
    /\ HasEvent("save_lora")
    /\ PretrainedIntact(checkpoint_dirs[global_step].token_embedding)

\* C5: the optimizer-step block runs in the iteration with in-epoch index
\* step iff (step+1) is a multiple of gradient_accumulation_steps or
\* step+1 is the number of batches; when it runs the calls are, in order,
\* step() then zero_grad() of each optimizer, retract_embeddings,
\* fix_embedding_std; none of them happens in any other iteration.
BlockEventNames ==
    {"optimizer.step", "optimizer.zero_grad", "optimizer_prod.step",
     "optimizer_prod.zero_grad", "retract_embeddings", "fix_embedding_std"}

IsBlockEvent(e) == e \in BlockEventNames

IsPrefix(a, b) == Len(a) <= Len(b) /\ SubSeq(b, 1, Len(a)) = a

ExpectedBlock ==
    (IF optimizer.is_none THEN <<>>
     ELSE <<"optimizer.step", "optimizer.zero_grad">>)
    \o (IF optimizer_prod.is_none THEN <<>>
        ELSE <<"optimizer_prod.step", "optimizer_prod.zero_grad">>)
    \o <<"retract_embeddings", "fix_embedding_std">>

C5_BlockOnlyOnBoundaryInOrder ==
    pc \in InLoopPcs =>
        LET block == SelectSeq(events, IsBlockEvent)
            boundary ==
                \/ (step + 1) % config.gradient_accumulation_steps = 0
                \/ step + 1 = config.len_train_dataloader
        IN /\ ~boundary => block = <<>>
           /\ boundary => IsPrefix(block, ExpectedBlock)
           /\ (boundary /\ pc \in {"record_lr", "checkpoint", "render", "advance"})
                 => block = ExpectedBlock

\* The last batch of an epoch that is not a multiple of the accumulation
\* count has run the whole block with both optimizers.
C5_Witness ==
    /\ pc = "record_lr"
    /\ step + 1 = config.len_train_dataloader
    /\ (step + 1) % config.gradient_accumulation_steps # 0
    /\ SelectSeq(events, IsBlockEvent) =
          <<"optimizer.step", "optimizer.zero_grad", "optimizer_prod.step",
            "optimizer_prod.zero_grad", "retract_embeddings",
            "fix_embedding_std">>

\* C6: with hard_pivot the pivot fires at most once: the check is evaluated
\* again in every later iteration without raising and without firing, and
\* an optimizer handle that is None stays None.
C6_PivotFiresOnce ==
    [][/\ pivot_count' <= 1
       /\ optimizer.is_none => optimizer'.is_none
       /\ pc = "pivot_lr" => (raised' = "none" /\ pc' = "forward")
       /\ (pc = "pivot_lr" /\ optimizer.is_none) => pivot_count' = pivot_count]_vars

\* The pivot check has been evaluated again, two iterations after the pivot.
C6_Witness ==
    /\ config.hard_pivot
    /\ pivot_count = 1
    /\ pc = "forward"
    /\ optimizer.is_none
    /\ Len(ti_lrs) >= 2
    /\ ti_lrs[Len(ti_lrs)] = 0
    /\ ti_lrs[Len(ti_lrs) - 1] = 0

\* C7: after the pivot has fired, the inserted token rows are never written
\* again for the rest of the run.
C7_TiRowsFrozenAfterPivot ==
    [][pivot_count >= 1 =>
          \A r \in InsertedRows : token_embedding'[r] = token_embedding[r]]_vars

\* C8: once the pivot has made the textual-inversion group inactive, its
\* optimizer is never stepped again and every textual-inversion rate
\* appended to the history is 0.
C8_InactiveGroupNotSteppedLrZero ==
    [][pivot_count >= 1 =>
          /\ ~\E i \in DOMAIN events' : events'[i] = "optimizer.step"
          /\ grads'.ti >= grads.ti
          /\ Len(ti_lrs') > Len(ti_lrs) => ti_lrs'[Len(ti_lrs')] = 0]_vars

\* After the pivot an accumulation boundary has passed and a rate has been
\* recorded.
C8_Witness ==
    /\ pivot_count = 1
    /\ pc = "checkpoint"
    /\ HasEvent("optimizer_prod.step")
    /\ ~HasEvent("optimizer.step")
    /\ ti_lrs[Len(ti_lrs)] = 0
    /\ \E i \in DOMAIN ti_lrs : ti_lrs[i] # 0

\* C9: with hard_pivot and a positive textual_inversion_lr, the recorded
\* textual-inversion rate is non-zero in every iteration of the epochs
\* 0 .. E//2 - 1 and 0 in every iteration of the epochs >= E//2, E being the
\* number of epochs of the run; the last non-zero record is that of the
\* last step of epoch E//2 - 1.
EpochOfRecord(i) == (i - 1) \div config.len_train_dataloader

C9_HardPivotLrRecords ==
    (config.hard_pivot /\ config.textual_inversion_lr > 0) =>
        LET E == CeilDiv(config.max_train_steps,
                         CeilDiv(config.len_train_dataloader,
                                 config.gradient_accumulation_steps))
        IN /\ \A i \in DOMAIN ti_lrs :
                 /\ EpochOfRecord(i) < E \div 2 => ti_lrs[i] # 0
                 /\ EpochOfRecord(i) >= E \div 2 => ti_lrs[i] = 0
           /\ pc = "done" => Len(ti_lrs) = E * config.len_train_dataloader

\* The run of 10 epochs has returned: the record of the last step of epoch 4
\* is non-zero and the records from epoch 5 on are 0.
C9_Witness ==
    /\ pc = "done"
    /\ config.hard_pivot
    /\ num_train_epochs(config) = 10
    /\ config.len_train_dataloader = 2
    /\ ti_lrs[10] # 0
    /\ \A i \in 11..20 : ti_lrs[i] = 0

\* C10: get_avg_lr never raises: for a None optimizer it returns 0, and the
\* recording of the rates in the loop never ends the training.
C10_GetAvgLrNeverRaises ==
    /\ raised \notin {"AttributeError", "TypeError", "IndexError"}
    /\ (pc = "checkpoint" /\ optimizer_prod.is_none)
          => lora_lrs[Len(lora_lrs)] = <<0, 1>>

\* The handles of a collection that are not None now, in the order unet
\* adapter, textual inversion, text-encoder adapter.
NonNullHandles(c) ==
    SelectSeq(<<c.optimizer_unet, c.optimizer_textual_inversion,
                c.optimizer_text_encoder_lora>>, IsHandle)

CallsMadeBy(method, handles) ==
    [i \in 1..Len(handles) |-> <<method, handles[i]>>]

NewCalls == SubSeq(collection'.calls, Len(collection.calls) + 1,
                   Len(collection'.calls))

\* C11: step() and zero_grad() of an OptimizerCollection each invoke exactly
\* the handles that are not null when the call is made, each once, in the
\* order unet adapter, textual inversion, text-encoder adapter; a handle
\* passed as None, or set to null on the collection by a pivot before the
\* call, is not invoked.
C11_FanOutToNonNullHandles ==
    [][/\ CollectionStep =>
            NewCalls = CallsMadeBy("step", NonNullHandles(collection))
       /\ CollectionZeroGrad =>
            NewCalls = CallsMadeBy("zero_grad", NonNullHandles(collection))]_vars

IsFactoryCall == unit.fn \in FactoryNames /\ unit.done

\* C12 as stated: a factory call with a name other than "adamw" and
\* "prodigy" raises and returns no algorithm; with either of those two names
\* it succeeds, whichever parameter group it is for.
C12_FactoriesAcceptBothNames ==
    IsFactoryCall =>
        IF unit.input.optimizer_name \in OptimizerNames
        THEN unit.ret.raised = "none"
        ELSE unit.ret = NotConstructed("NotImplementedError")

\* C12, amended: a factory call with a name other than "adamw" and "prodigy"
\* raises and returns no algorithm; the unet and the textual-inversion
\* factories return the algorithm named by either of the two names; the
\* text-encoder adapter factory returns AdamW for "adamw" and raises for
\* every other name, "prodigy" included.
C12_FactoriesByGroup ==
    IsFactoryCall =>
        LET n == unit.input.optimizer_name
            named == IF n = "adamw" THEN Constructed("AdamW")
                     ELSE Constructed("Prodigy")
        IN IF n \notin OptimizerNames
           THEN unit.ret = NotConstructed("NotImplementedError")
           ELSE IF unit.fn = "get_optimizer_and_peft_models_text_encoder_lora"
                   /\ n = "prodigy"
                THEN unit.ret = NotConstructed("NotImplementedError")
                ELSE unit.ret = named

C12_Witness ==
    /\ IsFactoryCall
    /\ unit.fn = "get_unet_optimizer"
    /\ unit.input.optimizer_name \notin OptimizerNames
    /\ unit.ret.raised = "NotImplementedError"

\* The iterations of the run so far, and in all: completion_f is their
\* quotient.
IterationsDone == epoch * config.len_train_dataloader + step
IterationsTotal == config.len_train_dataloader * num_train_epochs(config)

\* The textual-inversion optimizer is active and the head of the current
\* iteration has run.
TiActiveInIteration ==
    /\ pc \in InLoopPcs \ {"pivot_lr"}
    /\ ~optimizer.is_none

\* base_lr * (1 - f)^2 over the denominator LrDen = IterationsTotal^2.
DecayedRate ==
    config.textual_inversion_lr
        * (IterationsTotal - IterationsDone) * (IterationsTotal - IterationsDone)

RecordsNonIncreasing ==
    \A i \in 1..(Len(ti_lrs) - 1) : ti_lrs[i] >= ti_lrs[i + 1]

\* C13 as stated: in every iteration in which the textual-inversion
\* optimizer is active its rate is base_lr * (1 - f)^2 with
\* f = (epoch + step / steps_per_epoch) / total_epochs; the rates recorded
\* over the run never increase; the schedule gives 0 at f = 1.
C13_TiLrFollowsAnalyticDecay ==
    pc # "not_training" =>
        /\ TiActiveInIteration => optimizer.param_groups[1].lr = DecayedRate
        /\ RecordsNonIncreasing
        /\ AnalyticTiLr(config, num_train_epochs(config), 0) = 0

\* C13, amended: with hard_pivot disabled the rate of the textual-inversion
\* optimizer is base_lr * (1 - f)^2 in every iteration; with hard_pivot
\* enabled it stays base_lr for as long as the optimizer is active; either
\* way the recorded rates never increase, and the schedule gives 0 at f = 1.
C13_TiLrDecaysUnlessHardPivot ==
    pc # "not_training" =>
        /\ TiActiveInIteration =>
              optimizer.param_groups[1].lr =
                  IF config.hard_pivot
                  THEN config.textual_inversion_lr * LrDen(config)
                  ELSE DecayedRate
        /\ RecordsNonIncreasing
        /\ AnalyticTiLr(config, num_train_epochs(config), 0) = 0

C13_Witness ==
    /\ pc = "checkpoint"
    /\ ~config.hard_pivot
    /\ ~optimizer.is_none
    /\ Len(ti_lrs) >= 3
    /\ ti_lrs[Len(ti_lrs)] = DecayedRate
    /\ ti_lrs[Len(ti_lrs)] < ti_lrs[1]

\* The write of a render at position i of the call log: the last save_lora
\* before it.
WrittenBefore(i, j) ==
    /\ j < i
    /\ events[j] = "save_lora"
    /\ \A k \in (j + 1)..(i - 1) : events[k] # "save_lora"

\* C14: for every checkpointed step, periodic or final, the validation
\* render comes after the write of the adapter weights and embeddings of
\* that step, with no optimizer step, retraction or rescale between the
\* two: the rendered directory holds the parameters of the moment.
C14_RenderAfterWrite ==
    pc # "not_training" =>
        \A i \in DOMAIN events :
            events[i] = "render_images" =>
                /\ \E j \in DOMAIN events :
                      /\ WrittenBefore(i, j)
                      /\ \A k \in j..i : ~IsBlockEvent(events[k])
                /\ DirExists(output_save_dir)
                /\ checkpoint_dirs[output_save_dir].unet_lora = unet_lora
                /\ checkpoint_dirs[output_save_dir].token_embedding
                      = token_embedding

C14_Witness ==
    /\ pc = "advance"
    /\ HasEvent("optimizer_prod.step")
    /\ Len(events) >= 3
    /\ SubSeq(events, Len(events) - 2, Len(events))
          = <<"save_lora", "save_as_json", "render_images">>
    /\ checkpoint_dirs[global_step].renders = 1

\* A checkpoint has just been written (save_lora returned).
JustWritten == pc \in {"render", "final_render"}

\* C15: a checkpoint written under the label checkpoint-S, periodic or
\* final, for any gradient_accumulation_steps, holds the state produced by
\* the optimizer step of global step S: the parameters of the moment, with
\* no gradient contribution of an iteration up to S left unapplied.
C15_CheckpointHoldsStepState ==
    JustWritten =>
        /\ checkpoint_dirs[output_save_dir].unet_lora = unet_lora
        /\ checkpoint_dirs[output_save_dir].token_embedding = token_embedding
        /\ grads.unet = 0
        /\ ~optimizer.is_none => grads.ti = 0

\* The write of a checkpoint directory has completed: the weights, the
\* configuration dump and the validation render are all in it.
WriteCompleted(label) ==
    /\ checkpoint_dirs[label].json_writes >= 1
    /\ checkpoint_dirs[label].renders >= 1

\* C16: once the write of a checkpoint directory has completed, no later
\* operation of the run (a later iteration, the final save, the final
\* configuration dump) writes into it or deletes it.
C16_CompletedCheckpointsImmutable ==
    [][pc # "not_training" =>
          \A label \in DOMAIN checkpoint_dirs :
              WriteCompleted(label) =>
                  /\ label \in DOMAIN checkpoint_dirs'
                  /\ checkpoint_dirs'[label] = checkpoint_dirs[label]]_vars

IsLossCall == unit.fn = "compute_loss" /\ unit.done

\* The plain mean squared error of a batch: the mean of
\* (model_pred - target)^2 over every element of every example.
PlainMSE(x) ==
    RMean([b \in DOMAIN x.diff |->
              RMean([e \in 1..NumPixels |->
                        R(x.diff[b][e] * x.diff[b][e], 1)])])

\* The mask of x has the same value level / MaskDen at every element.
UniformMask(x, level) ==
    \A b \in DOMAIN x.mask : \A e \in 1..NumPixels : x.mask[b][e] = level

\* C17 as stated: for a mask of uniform value c > 0 the masked,
\* mask-mean-normalized loss (SNR weighting off, no L1 penalty) equals the
\* plain unmasked mean squared error.
C17_UniformMaskGivesPlainMSE ==
    (IsLossCall /\ unit.input.snr_gamma = "None" /\ unit.input.l1_penalty = 0)
        => \A level \in 1..MaskDen :
              UniformMask(unit.input, level)
                  => REq(unit.ret, PlainMSE(unit.input))

\* C17, amended: for a mask of uniform value c > 0 the masked,
\* mask-mean-normalized loss (SNR weighting off, no L1 penalty) equals c
\* times the plain unmasked mean squared error.
C17_UniformMaskScalesMSE ==
    (IsLossCall /\ unit.input.snr_gamma = "None" /\ unit.input.l1_penalty = 0)
        => \A level \in 1..MaskDen :
              UniformMask(unit.input, level)
                  => REq(unit.ret,
                         RMul(R(level, MaskDen), PlainMSE(unit.input)))

C17_Witness ==
    /\ IsLossCall
    /\ unit.input.snr_gamma = "None"
    /\ unit.input.l1_penalty = 0
    /\ Len(unit.input.diff) = MaxBatchSize
    /\ UniformMask(unit.input, 1)
    /\ PlainMSE(unit.input).num > 0
    /\ REq(unit.ret, RMul(R(1, MaskDen), PlainMSE(unit.input)))

\* C18: for a batch whose mask is all ones, with snr_gamma = None and
\* l1_penalty = 0, the loss of the iteration is exactly the mean squared
\* error between prediction and target, whatever the batch size.
C18_AllOnesMaskGivesMSE ==
    (IsLossCall /\ unit.input.snr_gamma = "None" /\ unit.input.l1_penalty = 0
                /\ UniformMask(unit.input, MaskDen))
        => REq(unit.ret, PlainMSE(unit.input))

C18_Witness ==
    /\ IsLossCall
    /\ unit.input.snr_gamma = "None"
    /\ unit.input.l1_penalty = 0
    /\ UniformMask(unit.input, MaskDen)
    /\ Len(unit.input.diff) = MaxBatchSize
    /\ unit.input.diff[1][1] # unit.input.diff[MaxBatchSize][1]
    /\ unit.ret = PlainMSE(unit.input)
    /\ unit.ret.num > 0

\* C19: on the same prediction, target and mask, batches whose examples
\* have different mask means included, the loss of the SNR branch with
\* snr_gamma = +inf (every weight 1) equals the loss of the unweighted
\* masked branch, wherever the latter is a finite number.
C19_SnrInfMatchesMaskedLoss ==
    (IsLossCall /\ unit.input.snr_gamma = "inf"
                /\ IsFinite(ComputeLoss([unit.input EXCEPT
                                            !.snr_gamma = "None"])))
        => REq(unit.ret, ComputeLoss([unit.input EXCEPT !.snr_gamma = "None"]))

IsBatchCall == unit.fn = "unpack_batch" /\ unit.done

\* C20: a single-tokenizer batch (token-ids, latent, mask) yields its token
\* ids as tok1 and tok2 = None, whatever its batch size; a two-tokenizer
\* batch ((tok1, tok2), latent, mask) yields both token streams; a batch
\* of neither shape raises.
C20_BatchShapeByStructure ==
    IsBatchCall =>
        LET batch == unit.input.batch
            bsz == unit.input.bsz
        IN IF batch = SingleTokenizerBatch(bsz)
           THEN unit.ret = Unpacked(Tensor("tok", bsz), None)
           ELSE IF batch = TwoTokenizerBatch(bsz)
                THEN unit.ret = Unpacked(Tensor("tok1", bsz),
                                         Tensor("tok2", bsz))
                ELSE unit.ret.raised # "none"

IsGpuCall == unit.fn = "pick_best_gpu_id" /\ unit.done

\* No accelerator can be selected: a query raises, or no device is visible.
NoAccelerator(x) ==
    \/ x.raises = "device_count"
    \/ x.raises = "mem_get_info" /\ Len(x.free_memory) > 0
    \/ Len(x.free_memory) = 0

\* C21: device selection never aborts; whenever no accelerator can be
\* selected (a query raises, or zero devices are visible) pick_best_gpu_id
\* returns the index 0, so the configured device is always cuda:<integer>;
\* when devices are visible it returns the index of a device with maximal
\* free memory.
C21_DeviceIsAlwaysAnIndex ==
    IsGpuCall =>
        LET x == unit.input
            gpu_id == unit.ret.index
        IN /\ ~gpu_id.is_none
           /\ NoAccelerator(x) => gpu_id.id = 0
           /\ ~NoAccelerator(x) =>
                 /\ gpu_id.id + 1 \in DOMAIN x.free_memory
                 /\ \A j \in DOMAIN x.free_memory :
                       x.free_memory[j] <= x.free_memory[gpu_id.id + 1]

\* C22: with a prediction_type other than "epsilon" train() goes from the
\* head of the first iteration to the forward pass and from there to the
\* NotImplementedError, which ends the call: no backward pass, no optimizer
\* step, no change of the embeddings and no checkpoint write happens.
C22_UnsupportedPredictionTypeFailsFast ==
    [][(pc # "not_training" /\ config.prediction_type # "epsilon") =>
          /\ pc' \in {"forward", "raised"}
          /\ pc' = "raised" => raised' = "NotImplementedError"
          /\ pc' # "raised" => raised' = "none"
          /\ UNCHANGED <<grads, unet_lora, token_embedding, checkpoint_dirs,
                         global_step, ti_lrs, lora_lrs>>
          /\ ~HasEvent("backward")']_vars

C22_Witness ==
    /\ pc = "raised"
    /\ raised = "NotImplementedError"
    /\ config.prediction_type = "v_prediction"
    /\ events = <<"unet">>
    /\ global_step = 0
    /\ grads = [ti |-> 0, unet |-> 0]
    /\ checkpoint_dirs = <<>>

\* An epoch boundary: the head of the first iteration of an epoch, or
\* anywhere after the loops.
AtEpochBoundary ==
    \/ pc = "pivot_lr" /\ step = 0
    \/ pc \in AfterLoopPcs

EpochsCompleted == IF pc \in AfterLoopPcs THEN epoch + 1 ELSE epoch

\* C23: in every epoch of L batches with accumulation N exactly ceil(L/N)
\* adapter-optimizer steps are made, never more than N backward passes
\* wait for a step, and at every epoch boundary no backward pass is left
\* without its adapter-optimizer step and zero_grad.
C23_StepsPerEpoch ==
    pc # "not_training" =>
        /\ grads.unet <= config.gradient_accumulation_steps
        /\ AtEpochBoundary =>
              /\ grads.unet = 0
              /\ unet_lora =
                    EpochsCompleted
                        * CeilDiv(config.len_train_dataloader,
                                  config.gradient_accumulation_steps)

C23_Witness ==
    /\ pc = "pivot_lr"
    /\ step = 0
    /\ epoch >= 1
    /\ config.gradient_accumulation_steps >= 2
    /\ config.len_train_dataloader % config.gradient_accumulation_steps # 0
    /\ config.len_train_dataloader > config.gradient_accumulation_steps
    /\ unet_lora = epoch * 2
    /\ grads.unet = 0

\* C24: when train() returns, the returned path is a checkpoint directory
\* written during the call and no checkpoint was written after it: it is
\* either checkpoint-<final global_step>, saved after the loop, or
\* checkpoint-<last_save_step>, the final save having been skipped.
C24_ReturnsLatestCheckpoint ==
    pc = "done" =>
        /\ DirExists(output_save_dir)
        /\ \A label \in DOMAIN checkpoint_dirs :
              checkpoint_dirs[label].saved_at
                  <= checkpoint_dirs[output_save_dir].saved_at
        /\ \/ /\ output_save_dir = global_step
              /\ checkpoint_dirs[output_save_dir].saved_at = global_step
              /\ HasEvent("save_lora")
           \/ /\ output_save_dir = last_save_step
              /\ checkpoint_dirs[output_save_dir].saved_at = last_save_step
              /\ ~HasEvent("save_lora")

C24_Witness ==
    /\ pc = "done"
    /\ output_save_dir = global_step
    /\ last_save_step < global_step
    /\ DirExists(last_save_step)
    /\ checkpoint_dirs[global_step].renders = 1
    /\ checkpoint_dirs[global_step].json_writes = 1

====
